---- MODULE Spec2Model ----
(***************************************************************************)
(* Near-duplicate image finders of mediatools.                             *)
(*                                                                         *)
(*   bucket strategy   backends/averagehash.py  ImageDuplicateFinder.find  *)
(*                     similarity/imagehashcmp.py  find_duplicates         *)
(*   pairwise strategy backends/cv2histogram.py  CV2Matcher.find,          *)
(*                     calculate_groups, calculate_correlations            *)
(*                     similarity/cv2cmp.py  group                         *)
(*   two-pass bucket   ocdutils/similarimages.py  SimilarImages            *)
(*                                                                         *)
(* A hash string of fixed width is modelled by a natural number (the order *)
(* of fixed-width hex strings is the order of the numbers they render), a  *)
(* correlation score by an integer number of hundredths.                   *)
(***************************************************************************)
EXTENDS Integers, Sequences, FiniteSets, TLC

\* ---------------------------------------------------------------- bounds
MaxImages == 3
NumHashes == 2
MaxWorkers == 2
MaxHashed == 4

\* ------------------------------------------------------------- the files
PathOrder == <<"a", "b", "c">>

Paths == {PathOrder[k] : k \in 1..Len(PathOrder)}

NoneHash == 0
ScoreOne == 100
OtherScores == {85, 95}
Thresholds == {-10, 0, 85, 90, 100, 150}

\* DEFAULT_THRESHOLD = 0.90 of backends/cv2histogram.py and
\* _DEFAULT_THRESHOLD = 90 of similarity/cv2cmp.py, in hundredths
DEFAULT_THRESHOLD == 90
CV2CMP_DEFAULT_THRESHOLD == 9000

\* DEFAULT_HASH_SIZE, and the grid sizes a caller asks for (0 stands for
\* every falsy value, None included)
DEFAULT_HASH_SIZE == 8
HashSizes == {-1, 0, 3, 16}

\* imagehash.average_hash raises ValueError for a grid smaller than 2x2
MinHashSize == 2

\* BACKEND_MAP = {"imagehash": "ImageDuplicateFinder"}
BACKEND_MAP == [imagehash |-> "ImageDuplicateFinder"]

\* the item the progress callback of the caller raises for, "none" when it
\* raises for no item
RaisesFor == {"none", "a", "b"}

\* the backends a caller of the facade may name
Backends == {"imagehash", "cv2histogram"}

BucketVariants == {"averagehash", "imagehashcmp"}
PairwiseVariants == {"cv2histogram", "cv2cmp"}

\* contentawareduplicates.find_duplicates
FacadeVariants == {"facade"}

\* ocdutils/similarimages.py SimilarImages.search_similar
SimilarVariants == {"similarimages"}

\* _DEFAULT_HASH_SIZE of ocdutils/similarimages.py
SIMILAR_DEFAULT_HASH_SIZE == 16

\* the entry points that are methods of a class with an __init__
ClassVariants == {"averagehash", "cv2histogram"}

\* files the bucket finders are run on: an image with its average hash,
\* content that is not an image, a file that cannot be read
BucketFiles ==
    {[suffix |-> ".jpg", kind |-> "image", ahash |-> h, fhash |-> 1] :
        h \in 1..NumHashes}
    \cup {[suffix |-> ".jpg", kind |-> k, ahash |-> NoneHash,
            fhash |-> NoneHash] : k \in {"notimage", "unreadable"}}

\* files the pairwise finders are run on
PairwiseFiles ==
    {[suffix |-> s, kind |-> "image", ahash |-> 1, fhash |-> 1] :
        s \in {".jpg", ".JPEG", ".png"}}
    \cup {[suffix |-> s, kind |-> "unreadable", ahash |-> NoneHash,
            fhash |-> NoneHash] : s \in {".jpg", ".png"}}

\* the hashes an image has on the grid of twice the hash size
FineHashes == {1, 2}

\* files SimilarImages is run on: an image with its hash on the grid of
\* hash_size and on the grid of 2 * hash_size, a file that is not a jpeg, a
\* file that cannot be read
SimilarFiles ==
    {[suffix |-> ".jpg", kind |-> "image", ahash |-> h, fhash |-> f] :
        h \in 1..NumHashes, f \in FineHashes}
    \cup {[suffix |-> ".png", kind |-> "image", ahash |-> 1, fhash |-> 1],
          [suffix |-> ".jpg", kind |-> "unreadable", ahash |-> NoneHash,
           fhash |-> NoneHash]}

PlainImage == [suffix |-> ".jpg", kind |-> "image", ahash |-> 1, fhash |-> 1]

PathPairs == {s \in SUBSET Paths : Cardinality(s) = 2}

VARIABLES
    variant,      \* the entry point that is called
    args,         \* the options the caller passes
    hash_size,    \* grid size of the bucket finder
    files,        \* path -> the file behind it
    pairScore,    \* {p, q} -> correlation of the histograms of p and q
    threshold,    \* threshold of the pairwise finder
    update_fn,    \* TRUE when a progress callback is given
    targets,      \* the list of paths the caller passes
    images,       \* the images of the call: the list that is fingerprinted
    pc,           \* "new", "rejected", "idle", "ready", "pool", "returned",
                  \* "raised", "reported", "cmd_raised"
    status,       \* position -> state of the task submitted for it
    hashes,       \* position -> result delivered by executor.map
    updates,      \* the calls update_fn has received, in call order
    opens,        \* path -> how many times its hash was computed in the call
    groups,       \* the value returned
    printed,      \* the group lines the command has printed
    spawned,      \* the command lines the command has run
    error         \* the exception raised to the caller, "none" if none

vars == <<variant, args, hash_size, files, pairScore, threshold, update_fn,
          targets, images, pc, status, hashes, updates, opens, groups,
          printed, spawned, error>>

output == <<printed, spawned>>

\* ------------------------------------------------------------- sequences
Front(s) == SubSeq(s, 1, Len(s) - 1)

Last(s) == s[Len(s)]

Range(s) == {s[i] : i \in 1..Len(s)}

SeqsUpTo(S, n) == UNION {[1..k -> S] : k \in 0..n}

RECURSIVE Concat(_)
Concat(ss) ==
    IF ss = <<>> THEN <<>> ELSE Concat(Front(ss)) \o Last(ss)

\* ------------------------------------------------ itertools / builtins
\* sorted(s, key=lambda x: x[0]) adds one element to an already sorted list:
\* it goes behind every element whose key is not greater (the sort is stable)
InsertAtEnd(sorted, x) == Append(sorted, x)

InsertBeforeEqual(sorted, x) ==
    LET k == Cardinality({i \in 1..Len(sorted) : sorted[i][1] < x[1]})
    IN  SubSeq(sorted, 1, k) \o <<x>> \o SubSeq(sorted, k + 1, Len(sorted))

InsertDescending(sorted, x) ==
    LET k == Cardinality({i \in 1..Len(sorted) : sorted[i][1] >= x[1]})
    IN  SubSeq(sorted, 1, k) \o <<x>> \o SubSeq(sorted, k + 1, Len(sorted))

InsertByFirst(sorted, x) ==
    LET k == Cardinality({i \in 1..Len(sorted) : sorted[i][1] <= x[1]})
    IN  SubSeq(sorted, 1, k) \o <<x>> \o SubSeq(sorted, k + 1, Len(sorted))

RECURSIVE SortedByFirst(_)
SortedByFirst(s) ==
    IF s = <<>> THEN <<>>
    ELSE InsertByFirst(SortedByFirst(Front(s)), Last(s))

\* itertools.groupby(s, lambda x: x[0]): the runs of consecutive elements
\* with an equal first component, as <<key, run>>
RECURSIVE GroupByFirst(_)
GroupByFirst(s) ==
    IF s = <<>> THEN <<>>
    ELSE LET rest == GroupByFirst(Front(s))
             x == Last(s)
         IN  IF rest # <<>> /\ Last(rest)[1] = x[1]
             THEN Append(Front(rest), <<x[1], Append(Last(rest)[2], x)>>)
             ELSE Append(rest, <<x[1], <<x>>>>)

\* [f(x) for x in s]
SecondOf(s) == [i \in 1..Len(s) |-> s[i][2]]

\* --------------------------------------------------- bucket: extraction
NoException == "none"

\* imagehash_frompath: the hash string of an image, or the exception that
\* Image.open raises
imagehash_frompath(path) ==
    CASE files[path].kind = "image" ->
            IF hash_size < MinHashSize
            THEN [value |-> NoneHash, exc |-> "ValueError", size |-> hash_size]
            ELSE [value |-> files[path].ahash, exc |-> NoException,
                  size |-> hash_size]
      [] files[path].kind = "notimage" ->
            [value |-> NoneHash, exc |-> "UnidentifiedImageError",
             size |-> hash_size]
      [] OTHER ->
            [value |-> NoneHash, exc |-> "OSError", size |-> hash_size]

\* hash_size or DEFAULT_HASH_SIZE
HashSizeOrDefault(h) == IF h = 0 THEN DEFAULT_HASH_SIZE ELSE h

\* get_backend_from_map(backend, map): the class the map names for the
\* backend
get_backend_from_map(backend, map) ==
    IF backend \in DOMAIN map THEN map[backend] ELSE "KeyError"

\* the finder a class name stands for
FinderOf(cls) ==
    CASE cls = "ImageDuplicateFinder" -> "averagehash"
      [] cls = "CV2Matcher" -> "cv2histogram"
      [] OTHER -> "none"

\* the finder that does the work of the call
Finder ==
    IF variant \in FacadeVariants
    THEN FinderOf(get_backend_from_map(args.backend, BACKEND_MAP))
    ELSE variant

\* the except clauses of map_and_update
CaughtBy(v) ==
    IF v = "averagehash" THEN {"UnidentifiedImageError", "OSError"}
    ELSE {"UnidentifiedImageError"}

\* the try statement of map_and_update: ret, or the exception that is
\* not caught
Extracted(v, item) ==
    LET r == imagehash_frompath(item)
    IN  IF r.exc \in CaughtBy(v)
        THEN [value |-> NoneHash, exc |-> NoException, size |-> r.size]
        ELSE r

\* update_fn(item, ret) raises
CallbackRaises(item) == update_fn /\ item = args.update_raises

\* map_and_update with a callback that never raises
MapWithoutCallback(v, item) == Extracted(v, item)

\* map_and_update: what the task returns (exc = "none") or raises; an
\* exception of update_fn leaves the task
map_and_update(v, item) ==
    LET ret == Extracted(v, item)
    IN  IF ret.exc = NoException /\ CallbackRaises(item)
        THEN [value |-> NoneHash, exc |-> "CallbackError", size |-> ret.size]
        ELSE ret

\* executor.map yields the results in the order of the submitted items: the
\* task of position i delivers into position i, however many tasks (ndone)
\* completed before it
ResultSlotByCompletion(i, ndone) == ndone + 1

ResultSlot(i, ndone) == i

\* ---------------------------------------------------- bucket: clustering
\* (imghash, image) for (imghash, image) in zip(hashes, images)
\*     if imghash is not None
ZipAll(hs, imgs) ==
    LET n == IF Len(hs) < Len(imgs) THEN Len(hs) ELSE Len(imgs)
    IN  [i \in 1..n |-> <<hs[i].value, imgs[i]>>]

ZipWithNone(hs, imgs) == ZipAll(hs, imgs)

ZipWithoutNone(hs, imgs) ==
    SelectSeq(ZipAll(hs, imgs), LAMBDA x : x[1] # NoneHash)

\* (imghash, [img for _, img in gr]) for imghash, gr in groupby(...)
Grouped(sorted) ==
    LET g == GroupByFirst(sorted)
    IN  [i \in 1..Len(g) |-> <<g[i][1], SecondOf(g[i][2])>>]

\* (imghash, gr) for imghash, gr in grouped_g if len(gr) > 1
StripUniqueKeepAll(grouped) == grouped

StripUnique(grouped) == SelectSeq(grouped, LAMBDA x : Len(x[2]) > 1)

\* the value find returns: averagehash strips the hash of every group,
\* imagehashcmp returns the (imghash, group) tuples
BucketGroups(v, hs, imgs) ==
    CHOOSE result \in
        {IF v = "averagehash" THEN SecondOf(groups_g) ELSE groups_g :
            groups_g \in
                {StripUnique(grouped_g) :
                    grouped_g \in
                        {Grouped(sorted_g) :
                            sorted_g \in
                                {SortedByFirst(zip_g) :
                                    zip_g \in {ZipWithoutNone(hs, imgs)}}}}} :
        TRUE

\* iterating the results raises the exception of the first task that raised
FirstRaised(hs) ==
    LET bad == {i \in 1..Len(hs) : hs[i].exc # NoException}
    IN  IF bad = {} THEN NoException
        ELSE hs[CHOOSE i \in bad : \A j \in bad : i <= j].exc

\* ------------------------------------------------- pairwise: histograms
\* x.suffix.lower()[1:] in ["jpg", "jpeg"]
Lower(suffix) ==
    CASE suffix = ".JPEG" -> ".jpeg"
      [] suffix = ".JPG" -> ".jpg"
      [] OTHER -> suffix

IsJpeg(path) == Lower(files[path].suffix) \in {".jpg", ".jpeg"}

AllOf(collection) == collection

JpegsOf(collection) == SelectSeq(collection, IsJpeg)

\* normalized_histogram_frompath raises ValueError when cv2.imread gives None
CannotRead(path) == files[path].kind # "image"

HistogramsRaise(imgs) == \E i \in 1..Len(imgs) : CannotRead(imgs[i])

\* cv2.compareHist(h1, h2, HISTCMP_CORREL) of the histograms of p and q: a
\* histogram correlates with itself with score 1
compareHist(p, q) == IF p = q THEN ScoreOne ELSE pairScore[{p, q}]

\* correl > threshold
ExceedsOrEqual(correl, t) == correl >= t

ExceedsInverted(correl, t) == correl < t

Exceeds(correl, t) == correl > t

\* ------------------------------------------------ pairwise: cv2histogram
\* calculate_correlations: for idx1, img1 in enumerate(images[:-1]), for
\* idx2, img2 in enumerate(images[idx1 + 1:]) the triple (img1, img2,
\* compareHist(histograms[idx1], histograms[idx1 + idx2])).  With a the
\* 1-based position of img1 and a + k that of img2, histograms[idx1 + idx2]
\* is the histogram of position a + k - 1.
calculate_correlations(imgs) ==
    Concat([a \in 1..(Len(imgs) - 1) |->
              [k \in 1..(Len(imgs) - a) |->
                 <<imgs[a], imgs[a + k],
                   compareHist(imgs[a], imgs[a + k - 1])>>]])

\* [img2 for _, img2, correl in g if correl > threshold]
Matching(g, t) == SecondOf(SelectSeq(g, LAMBDA x : Exceeds(x[3], t)))

\* one entry for each run of itertools.groupby(correlations, x[0])
MatchingOfRuns(imgs, t) ==
    LET runs == GroupByFirst(calculate_correlations(imgs))
    IN  [i \in 1..Len(runs) |->
           [img1 |-> runs[i][1], matching |-> Matching(runs[i][2], t)]]

\* calculate_groups: groups.append([img1] + matching) when matching is not
\* empty
calculate_groups(imgs, t) ==
    LET hit == SelectSeq(MatchingOfRuns(imgs, t),
                         LAMBDA r : r.matching # <<>>)
    IN  [i \in 1..Len(hit) |-> <<hit[i].img1>> \o hit[i].matching]

\* ------------------------------------------------------ pairwise: cv2cmp
\* similarities of the anchor at position a against hists[idx1 + 1:],
\* filtered by sim > threshold
Similarities(imgs, a, t) ==
    SelectSeq([k \in 1..(Len(imgs) - a) |->
                 <<imgs[a], imgs[a + k], compareHist(imgs[a], imgs[a + k])>>],
              LAMBDA x : Exceeds(x[3], t))

\* group: one Cluster for each anchor of hists[:-1] with similarities
group(imgs, t) ==
    LET anchors == SelectSeq([a \in 1..(Len(imgs) - 1) |-> a],
                             LAMBDA a : Similarities(imgs, a, t) # <<>>)
    IN  [i \in 1..Len(anchors) |->
           [fuzzyhash |-> <<"crc32", imgs[anchors[i]]>>,
            items |-> <<imgs[anchors[i]]>>
                      \o SecondOf(Similarities(imgs, anchors[i], t))]]

\* ------------------------------------------------------------------ Init
\* the value of the parameter threshold when the caller gives none
ThresholdDefault(v) ==
    IF v = "cv2cmp" THEN CV2CMP_DEFAULT_THRESHOLD ELSE DEFAULT_THRESHOLD

Init ==
    /\ variant \in BucketVariants \cup PairwiseVariants \cup FacadeVariants
                   \cup SimilarVariants
    /\ args \in [hash_size : HashSizes, update_fn : BOOLEAN,
                  threshold : Thresholds, default_threshold : BOOLEAN,
                  backend : Backends, update_raises : RaisesFor]
    /\ IF variant \in PairwiseVariants
       THEN /\ args.hash_size = 0
            /\ args.update_fn = FALSE
            /\ args.backend = "cv2histogram"
            /\ args.default_threshold => args.threshold = 90
       ELSE /\ args.threshold = 90
            /\ ~args.default_threshold
            /\ variant \in BucketVariants => args.backend = "imagehash"
    /\ args.update_raises # "none" =>
           /\ variant \in BucketVariants
           /\ args.update_fn
           /\ args.hash_size = 0
    /\ variant \in SimilarVariants =>
           /\ args.hash_size = SIMILAR_DEFAULT_HASH_SIZE
           /\ args.update_fn = FALSE
           /\ args.backend = "imagehash"
    /\ hash_size = args.hash_size
    /\ threshold = IF args.default_threshold
                   THEN ThresholdDefault(variant)
                   ELSE args.threshold
    /\ update_fn = args.update_fn
    /\ files = [p \in Paths |-> PlainImage]
    /\ pairScore = [s \in PathPairs |-> ScoreOne]
    /\ targets = <<>>
    /\ images = <<>>
    /\ pc = IF variant \in ClassVariants THEN "new" ELSE "idle"
    /\ status = <<>>
    /\ hashes = <<>>
    /\ updates = <<>>
    /\ opens = [p \in Paths |-> 0]
    /\ groups = <<>>
    /\ printed = <<>>
    /\ spawned = <<>>
    /\ error = NoException

config == <<variant, args, threshold, update_fn, hash_size>>

world == <<config, files, pairScore>>

\* the files behind the paths of a call, each taken from the catalogue; the
\* paths the call does not name stay plain images
FilesFor(imgs, catalogue) ==
    {f \in [Paths -> catalogue \cup {PlainImage}] :
        \A p \in Paths :
            IF p \in Range(imgs) THEN f[p] \in catalogue
            ELSE f[p] = PlainImage}

\* the correlations of the histograms of the paths of a call
ScoresFor(imgs) ==
    {sc \in [PathPairs -> OtherScores \cup {ScoreOne}] :
        \A s \in PathPairs :
            IF s \subseteq Range(imgs) /\ variant \in PairwiseVariants
            THEN sc[s] \in OtherScores
            ELSE sc[s] = ScoreOne}

\* ---------------------------------------------------------- construction
\* ImageDuplicateFinder.__init__
ImageDuplicateFinderInit ==
    /\ pc = "new"
    /\ variant = "averagehash"
    /\ hash_size' = HashSizeOrDefault(hash_size)
    /\ pc' = "idle"
    /\ UNCHANGED <<output, variant, args, threshold, update_fn, files, pairScore,
                   targets, images, status, hashes, updates, opens, groups,
                   error>>

\* threshold < 0 or threshold > 1
ThresholdRejected(t) == t < 0 \/ t > ScoreOne

\* CV2Matcher.__init__
CV2MatcherInit ==
    /\ pc = "new"
    /\ variant = "cv2histogram"
    /\ IF ThresholdRejected(threshold)
       THEN pc' = "rejected" /\ error' = "ValueError"
       ELSE pc' = "idle" /\ error' = error
    /\ UNCHANGED <<output, world, targets, images, status, hashes, updates, opens,
                   groups>>

\* ------------------------------------------------------------ the caller
\* the caller collects the paths to scan; what is on disk behind them and
\* how their histograms correlate is not under the control of the finder
Collect(paths, onDisk, scores) ==
    /\ pc = "idle"
    /\ targets' = paths
    /\ files' = onDisk
    /\ pairScore' = scores
    /\ pc' = "ready"
    /\ UNCHANGED <<output, config, images, status, hashes, updates, opens, groups,
                   error>>

\* --------------------------------------------------------- bucket finders
\* find with a pool of one worker for each item: a pool of no worker is
\* refused
FindOneWorkerPerItem ==
    /\ pc = "ready"
    /\ variant \in BucketVariants
    /\ images' = targets
    /\ status' = [i \in 1..Len(targets) |-> "pending"]
    /\ hashes' = [i \in 1..Len(targets) |->
                     [value |-> NoneHash, exc |-> "unset"]]
    /\ IF targets = <<>>
       THEN pc' = "raised" /\ error' = "ValueError"
       ELSE pc' = "pool" /\ error' = error
    /\ hash_size' = IF variant = "imagehashcmp"
                    THEN HashSizeOrDefault(hash_size)
                    ELSE hash_size
    /\ UNCHANGED <<output, variant, args, threshold, update_fn, files, pairScore,
                   targets, updates, opens, groups>>

\* find / find_duplicates up to executor.map: every item is submitted to the
\* pool, in input order
Find ==
    /\ pc = "ready"
    /\ variant \in BucketVariants
    /\ hash_size' = IF variant = "imagehashcmp"
                    THEN HashSizeOrDefault(hash_size)
                    ELSE hash_size
    /\ images' = targets
    /\ status' = [i \in 1..Len(targets) |-> "pending"]
    /\ hashes' = [i \in 1..Len(targets) |->
                     [value |-> NoneHash, exc |-> "unset"]]
    /\ pc' = "pool"
    /\ UNCHANGED <<output, variant, args, threshold, update_fn, files, pairScore,
                   targets, updates, opens, groups, error>>

\* contentawareduplicates.find_duplicates(images, backend=..., **kwargs):
\* ImageDuplicateFinderFactory resolves the class and calls Cls() without the
\* options, then find(images) runs up to executor.map
FacadeFindDuplicates ==
    /\ pc = "ready"
    /\ variant \in FacadeVariants
    /\ IF get_backend_from_map(args.backend, BACKEND_MAP) = "KeyError"
       THEN /\ pc' = "raised"
            /\ error' = "KeyError"
            /\ UNCHANGED <<output, hash_size, update_fn, images, status, hashes>>
       ELSE /\ hash_size' = HashSizeOrDefault(DEFAULT_HASH_SIZE)
            /\ update_fn' = FALSE
            /\ images' = targets
            /\ status' = [i \in 1..Len(targets) |-> "pending"]
            /\ hashes' = [i \in 1..Len(targets) |->
                             [value |-> NoneHash, exc |-> "unset"]]
            /\ pc' = "pool"
            /\ error' = error
    /\ UNCHANGED <<output, variant, args, threshold, files, pairScore, targets,
                   updates, opens, groups>>

\* the pool has a free worker
WorkerPerItem(running) == TRUE

NoWorker(running) == FALSE

WorkerFree(running) == Cardinality(running) < MaxWorkers

\* the with block of the executor is left: shutdown(wait=True) has waited
\* for every submitted task
PoolShutDownNoWait(st) == TRUE

PoolShutDown(st) == \A i \in 1..Len(st) : st[i] = "done"

Running == {i \in 1..Len(status) : status[i] = "running"}

Pending == {i \in 1..Len(status) : status[i] = "pending"}

Done == {i \in 1..Len(status) : status[i] = "done"}

\* a free worker of the pool takes the oldest queued item
StartTask(i) ==
    /\ pc = "pool"
    /\ i \in Pending
    /\ \A j \in Pending : i <= j
    /\ WorkerFree(Running)
    /\ status' = [status EXCEPT ![i] = "running"]
    /\ UNCHANGED <<output, world, targets, images, pc, hashes, updates, opens, groups,
                   error>>

\* map_and_update(images[i]) runs to its end on its worker
FinishTask(i) ==
    /\ pc = "pool"
    /\ i \in Running
    /\ LET r == map_and_update(Finder, images[i])
           ret == Extracted(Finder, images[i])
           slot == ResultSlot(i, Cardinality(Done))
       IN  /\ hashes' = [hashes EXCEPT ![slot] = r]
           /\ updates' = IF update_fn /\ ret.exc = NoException
                         THEN Append(updates, <<images[i], ret.value>>)
                         ELSE updates
    /\ status' = [status EXCEPT ![i] = "done"]
    /\ opens' = [opens EXCEPT ![images[i]] = @ + 1]
    /\ UNCHANGED <<output, world, targets, images, pc, groups, error>>

\* the with block is left once every task is done; the results are zipped,
\* sorted, grouped and filtered, or the exception of a task is raised
Cluster ==
    /\ pc = "pool"
    /\ PoolShutDown(status)
    /\ IF FirstRaised(hashes) # NoException
       THEN /\ pc' = "raised"
            /\ error' = FirstRaised(hashes)
            /\ groups' = groups
       ELSE /\ pc' = "returned"
            /\ error' = error
            /\ groups' = BucketGroups(Finder, hashes, images)
    /\ UNCHANGED <<output, world, targets, images, status, hashes, updates, opens>>

\* ------------------------------------------------------- pairwise finders
\* CV2Matcher.find: the jpg/jpeg files of the list go to calculate_groups
CV2MatcherFind ==
    /\ pc = "ready"
    /\ variant = "cv2histogram"
    /\ images' = JpegsOf(targets)
    /\ IF HistogramsRaise(JpegsOf(targets))
       THEN /\ pc' = "raised"
            /\ error' = "ValueError"
            /\ groups' = groups
       ELSE /\ pc' = "returned"
            /\ error' = error
            /\ groups' = calculate_groups(JpegsOf(targets), threshold)
    /\ UNCHANGED <<output, world, targets, status, hashes, updates, opens>>

\* similarity/cv2cmp.py group
Group ==
    /\ pc = "ready"
    /\ variant = "cv2cmp"
    /\ images' = JpegsOf(targets)
    /\ IF HistogramsRaise(JpegsOf(targets))
       THEN /\ pc' = "raised"
            /\ error' = "ValueError"
            /\ groups' = groups
       ELSE /\ pc' = "returned"
            /\ error' = error
            /\ groups' = group(JpegsOf(targets), threshold)
    /\ UNCHANGED <<output, world, targets, status, hashes, updates, opens>>

\* ------------------------------------------- the find-duplicates command
\* the entry points that find_duplicates_cmd of contentawareduplicates.py
\* and of similarity/imagehashcmp.py call
CommandVariants == {"facade", "imagehashcmp"}

\* for idx, (imghash, gr) in enumerate(dupes), then for img in gr: the
\* exception raised for the group g that the finder v returned.  find_
\* duplicates of imagehashcmp returns (imghash, [paths]); find of
\* ImageDuplicateFinder returns [paths]: a list of two paths unpacks into
\* a path as imghash and a path as gr, and a path cannot be iterated; a
\* longer list does not unpack
UnpackError(v, g) ==
    IF v = "imagehashcmp" THEN NoException
    ELSE IF Len(g) = 2 THEN "TypeError"
    ELSE "ValueError"

\* the groups the loop handles before it raises
Reported(v, dupes) ==
    LET bad == {i \in 1..Len(dupes) : UnpackError(v, dupes[i]) # NoException}
    IN  IF bad = {} THEN dupes
        ELSE SubSeq(dupes, 1, (CHOOSE i \in bad : \A j \in bad : i <= j) - 1)

\* click.echo(f"Group {idx+1}  ({imghash}): {pathsstr}")
GroupLine(idx, g) == [idx |-> idx, imghash |-> g[1], paths |-> g[2]]

\* cmdl = [execute] + [x.as_posix() for x in gr]
CommandLine(g) == <<"execute">> \o g[2]

\* find_duplicates_cmd after find_duplicates has returned: the loop over
\* dupes, with or without the option --execute
FindDuplicatesCmdReport ==
    /\ pc = "returned"
    /\ variant \in CommandVariants
    /\ LET done == Reported(Finder, groups)
       IN  /\ printed' = [i \in 1..Len(done) |-> GroupLine(i, done[i])]
           /\ \E execute \in BOOLEAN :
                 spawned' = IF execute
                            THEN [i \in 1..Len(done) |-> CommandLine(done[i])]
                            ELSE <<>>
           /\ IF Len(done) = Len(groups)
              THEN pc' = "reported" /\ error' = error
              ELSE /\ pc' = "cmd_raised"
                   /\ error' = UnpackError(Finder, groups[Len(done) + 1])
    /\ UNCHANGED <<world, targets, images, status, hashes, updates, opens,
                   groups>>

\* ---------------------------------------------------------- SimilarImages
\* calculate_hash(filepath, hash_size=size): the hash string of the image on
\* the grid of size, or the exception that is raised (nothing is caught)
calculate_hash(path, size) ==
    CASE files[path].kind = "image" ->
            IF size < MinHashSize
            THEN [value |-> NoneHash, exc |-> "ValueError"]
            ELSE [value |-> IF size = hash_size THEN files[path].ahash
                            ELSE files[path].fhash,
                  exc |-> NoException]
      [] files[path].kind = "notimage" ->
            [value |-> NoneHash, exc |-> "UnidentifiedImageError"]
      [] OTHER ->
            [value |-> NoneHash, exc |-> "OSError"]

\* build_hash_dict: the dict hash -> [paths], as the sequence of its items;
\* a dict keeps its keys in the order they were inserted
RECURSIVE build_hash_dict(_, _)
build_hash_dict(collection, size) ==
    IF collection = <<>> THEN <<>>
    ELSE LET rest == build_hash_dict(Front(collection), size)
             imgpath == Last(collection)
             ih == calculate_hash(imgpath, size).value
             at == {k \in 1..Len(rest) : rest[k][1] = ih}
         IN  IF at = {} THEN Append(rest, <<ih, <<imgpath>>>>)
             ELSE LET k == CHOOSE k \in at : TRUE
                  IN  [rest EXCEPT ![k] = <<ih, Append(rest[k][2], imgpath)>>]

\* the position of the first path of the collection whose calculate_hash
\* raises, 0 when none does
FirstFailing(collection, size) ==
    LET bad == {i \in 1..Len(collection) :
                   calculate_hash(collection[i], size).exc # NoException}
    IN  IF bad = {} THEN 0 ELSE CHOOSE i \in bad : \A j \in bad : i <= j

\* itertools.chain().from_iterable(hashes.values())
ChainValues(d) == Concat(SecondOf(d))

\* the paths that are hashed again: those of every bucket of the first pass
SecondPass(d) == ChainValues(d)

\* how many positions of the collection hold the path
CountIn(collection, path) ==
    Cardinality({i \in 1..Len(collection) : collection[i] = path})

\* SimilarImages.search_similar
SearchSimilar ==
    /\ pc = "ready"
    /\ variant \in SimilarVariants
    /\ LET imgs == JpegsOf(targets)
           f1 == FirstFailing(imgs, hash_size)
           again == SecondPass(build_hash_dict(imgs, hash_size))
           f2 == FirstFailing(again, hash_size * 2)
           refined == build_hash_dict(again, hash_size * 2)
           kept == SelectSeq(refined, LAMBDA x : Len(x[2]) > 1)
       IN  /\ images' = imgs
           /\ IF f1 # 0
              THEN /\ pc' = "raised"
                   /\ error' = calculate_hash(imgs[f1], hash_size).exc
                   /\ groups' = groups
                   /\ opens' = [p \in Paths |->
                                   CountIn(SubSeq(imgs, 1, f1), p)]
              ELSE IF f2 # 0
              THEN /\ pc' = "raised"
                   /\ error' = calculate_hash(again[f2], hash_size * 2).exc
                   /\ groups' = groups
                   /\ opens' = [p \in Paths |->
                                   CountIn(imgs, p)
                                   + CountIn(SubSeq(again, 1, f2), p)]
              ELSE /\ pc' = "returned"
                   /\ error' = error
                   /\ groups' = [i \in 1..Len(kept) |->
                                    [hash |-> kept[i][1],
                                     paths |-> kept[i][2]]]
                   /\ opens' = [p \in Paths |->
                                   CountIn(imgs, p) + CountIn(again, p)]
    /\ UNCHANGED <<output, world, targets, status, hashes, updates>>

\* the lists of at most n paths; a list names its paths in the order of
\* PathOrder (a list that names them in another order is a renaming of one
\* of these)
InputsUpTo(n) ==
    {imgs \in SeqsUpTo(Paths, n) :
        \A i \in 1..Len(imgs) :
            \A k \in 2..Len(PathOrder) :
                imgs[i] = PathOrder[k] =>
                    \E j \in 1..(i - 1) : imgs[j] = PathOrder[k - 1]}

Inputs == InputsUpTo(MaxImages)

\* the files the entry point is run on
Catalogue ==
    IF variant \in PairwiseVariants THEN PairwiseFiles
    ELSE IF variant \in SimilarVariants THEN SimilarFiles
    ELSE BucketFiles

\* the caller collects any list of paths, with any files behind them
CollectAny ==
    /\ pc = "idle"
    /\ \E paths \in Inputs :
          \E onDisk \in FilesFor(paths, Catalogue) :
              \E scores \in ScoresFor(paths) :
                  Collect(paths, onDisk, scores)

Next ==
    \/ ImageDuplicateFinderInit
    \/ CV2MatcherInit
    \/ CollectAny
    \/ Find
    \/ FacadeFindDuplicates
    \/ \E i \in 1..MaxImages : StartTask(i)
    \/ \E i \in 1..MaxImages : FinishTask(i)
    \/ Cluster
    \/ CV2MatcherFind
    \/ Group
    \/ SearchSimilar
    \/ FindDuplicatesCmdReport

Spec == Init /\ [][Next]_vars

\* ---------------------------------------------------- clustering alone
\* the state of a call of a bucket finder with the default options when the
\* pool has run every task, for any list of at most MaxHashed paths and any
\* files behind them
ClusterInit ==
    /\ variant \in BucketVariants
    /\ args = [hash_size |-> 0, update_fn |-> FALSE, threshold |-> 90,
               default_threshold |-> FALSE, backend |-> "imagehash",
               update_raises |-> "none"]
    /\ hash_size = HashSizeOrDefault(args.hash_size)
    /\ threshold = args.threshold
    /\ update_fn = args.update_fn
    /\ targets \in InputsUpTo(MaxHashed)
    /\ images = targets
    /\ files \in FilesFor(targets, BucketFiles)
    /\ pairScore = [s \in PathPairs |-> ScoreOne]
    /\ pc = "pool"
    /\ status = [i \in 1..Len(targets) |-> "done"]
    /\ hashes = [i \in 1..Len(targets) |->
                    map_and_update(variant, targets[i])]
    /\ updates = <<>>
    /\ opens = [p \in Paths |-> CountIn(targets, p)]
    /\ groups = <<>>
    /\ printed = <<>>
    /\ spawned = <<>>
    /\ error = NoException

ClusterNext == Cluster

ClusterSpec == ClusterInit /\ [][ClusterNext]_vars

\* the calls of the bucket finders with the default options
FairInit ==
    /\ Init
    /\ variant \in BucketVariants
    /\ args.hash_size = 0
    /\ ~args.update_fn

\* the steps of a call of a bucket finder
FairNext ==
    \/ ImageDuplicateFinderInit
    \/ CollectAny
    \/ Find
    \/ \E i \in 1..MaxImages : StartTask(i)
    \/ \E i \in 1..MaxImages : FinishTask(i)
    \/ Cluster

\* a step of the pool or of the caller who waits for it
PoolStep ==
    \/ \E i \in 1..MaxImages : StartTask(i)
    \/ \E i \in 1..MaxImages : FinishTask(i)
    \/ Cluster

\* the threads of the process are scheduled and each extraction comes to
\* its end: while a worker can take a task, an extraction runs or the
\* caller can leave the with block, one of them moves on
FairSpec == FairInit /\ [][FairNext]_vars /\ WF_vars(PoolStep)

\* every variable has a value of its kind
TypeOK ==
    /\ variant \in BucketVariants \cup PairwiseVariants \cup FacadeVariants
                   \cup SimilarVariants
    /\ pc \in {"new", "rejected", "idle", "ready", "pool", "returned",
               "raised", "reported", "cmd_raised"}
    /\ targets \in SeqsUpTo(Paths, MaxImages)
    /\ images \in SeqsUpTo(Paths, MaxImages)
    /\ Len(status) = Len(hashes)
    /\ update_fn \in BOOLEAN

\* ---------------------------------------------------------------- claims
\* the member list of a returned group
Members(g) ==
    IF variant = "imagehashcmp" THEN g[2]
    ELSE IF variant = "cv2cmp" THEN g.items
    ELSE IF variant \in SimilarVariants THEN g.paths
    ELSE g

MemberLists == [i \in 1..Len(groups) |-> Members(groups[i])]

Grouped_(path) == \E i \in 1..Len(groups) : path \in Range(Members(groups[i]))

\* the result of the extraction of every input position, in input order
ExtractedInOrder ==
    [i \in 1..Len(images) |-> map_and_update(variant, images[i])]

\* C1: whatever the completion order of the pool, the results handed to
\* clustering are as many as the input images and the i-th result is the
\* one computed for the i-th image.
C1_ResultsAlignedWithInput ==
    (variant \in BucketVariants /\ pc \in {"pool", "returned", "raised"}) =>
        /\ Len(hashes) = Len(images)
        /\ \A i \in Done : hashes[i] = ExtractedInOrder[i]
        /\ pc = "returned" =>
              groups = BucketGroups(variant, ExtractedInOrder, images)

\* C1 witness: three images were returned although the second image
\* completed first and the hashes of the first two differ.
C1_Witness ==
    /\ variant = "averagehash" /\ pc = "returned" /\ update_fn
    /\ Len(images) = 3 /\ Len(updates) = 3
    /\ updates[1][1] = images[2] /\ images[1] # images[2]
    /\ hashes[1].value # hashes[2].value
    /\ groups # <<>>

\* C2: a bucket finder never raises because an item is unreadable or is not
\* an image.
C2_BucketNeverRaises ==
    variant \in BucketVariants =>
        error \notin {"UnidentifiedImageError", "OSError"}

\* C3: a pairwise finder never raises because an image cannot be read.
C3_PairwiseNeverRaises ==
    variant \in PairwiseVariants => ~(pc = "raised" /\ error = "ValueError")

\* C4: every returned group of either strategy has at least two members.
C4_GroupsHaveTwoMembers ==
    \A i \in 1..Len(groups) : Len(Members(groups[i])) >= 2

\* C4 witness: a bucket of one image was dropped and a bucket of two was
\* returned.
C4_Witness ==
    /\ variant = "averagehash" /\ pc = "returned"
    /\ Len(images) = 3 /\ Len(groups) = 1 /\ Len(groups[1]) = 2
    /\ \A i \in 1..3 : hashes[i].value # NoneHash

\* the extraction of a path fails
ExtractionFails(path) ==
    IF variant \in BucketVariants
    THEN imagehash_frompath(path).exc # NoException
    ELSE CannotRead(path)

\* C5: an image whose extraction failed is a member of no returned group.
C5_FailedNeverGrouped ==
    pc = "returned" =>
        \A i \in 1..Len(images) :
            ExtractionFails(images[i]) => ~Grouped_(images[i])

\* C5 witness: groups were returned for a list that holds a failed image.
C5_Witness ==
    /\ pc = "returned" /\ groups # <<>>
    /\ \E i \in 1..Len(images) : ExtractionFails(images[i])

\* C6: bucket strategy: two images with the same hash are members of the
\* same group, an image whose hash no other position has is in no group.
C6_SameHashSameGroup ==
    (variant \in BucketVariants /\ pc = "returned") =>
        \A i \in 1..Len(images) :
            LET same == {j \in 1..Len(images) :
                            /\ j # i
                            /\ hashes[j].value = hashes[i].value}
            IN  /\ hashes[i].value # NoneHash =>
                    \A j \in same :
                        \E k \in 1..Len(groups) :
                            {images[i], images[j]}
                                \subseteq Range(Members(groups[k]))
                /\ same = {} => ~Grouped_(images[i])

\* C6 witness: the two images with the same hash are not neighbours in the
\* input and one group is returned.
C6_Witness ==
    /\ variant \in BucketVariants /\ pc = "returned"
    /\ Len(images) = 3 /\ Len(groups) = 1
    /\ hashes[1].value = hashes[3].value
    /\ hashes[2].value > hashes[1].value
    /\ hashes[1].value # NoneHash

\* the positions after anchor a whose histogram correlates with the
\* histogram of a above t
TrueMatches(imgs, a, t) ==
    SelectSeq([k \in 1..(Len(imgs) - a) |-> a + k],
              LAMBDA j : compareHist(imgs[a], imgs[j]) > t)

\* [image a] + [image j], one group for each anchor with a match, in
\* increasing anchor order
AnchorScan(imgs, t) ==
    LET anchors == SelectSeq([a \in 1..(Len(imgs) - 1) |-> a],
                             LAMBDA a : TrueMatches(imgs, a, t) # <<>>)
    IN  [i \in 1..Len(anchors) |->
           <<imgs[anchors[i]]>>
           \o [k \in 1..Len(TrueMatches(imgs, anchors[i], t)) |->
                 imgs[TrueMatches(imgs, anchors[i], t)[k]]]]

\* C7: pairwise strategy: the returned groups are exactly, in increasing
\* anchor order, [image i] + [every later image j whose histogram
\* correlates with that of image i above the threshold], one group for each
\* anchor with a match.
C7_GroupsAreAnchorScan ==
    (variant \in PairwiseVariants /\ pc = "returned") =>
        MemberLists = AnchorScan(images, threshold)

\* C8: pairwise strategy: a member of a returned group has a correlation
\* score above the threshold with another image of the list.
C8_MemberHasMatch ==
    (variant \in PairwiseVariants /\ pc = "returned") =>
        \A g \in 1..Len(groups) :
            \A m \in Range(Members(groups[g])) :
                \E i, j \in 1..Len(images) :
                    /\ i # j
                    /\ images[i] = m
                    /\ compareHist(images[i], images[j]) > threshold

\* the scores decided for each anchor, in the order they are decided
DecidedScores ==
    IF variant = "cv2histogram"
    THEN LET runs == GroupByFirst(calculate_correlations(images))
         IN  [r \in 1..Len(runs) |->
                [k \in 1..Len(runs[r][2]) |-> runs[r][2][k][3]]]
    ELSE [a \in 1..(Len(images) - 1) |->
            [k \in 1..(Len(images) - a) |->
               compareHist(images[a], images[a + k])]]

StrictlyAbove(scores) ==
    Cardinality({k \in 1..Len(scores) : scores[k] > threshold})

RECURSIVE IsSubSeq(_, _)
IsSubSeq(s, t) ==
    IF s = <<>> THEN TRUE
    ELSE IF t = <<>> THEN FALSE
    ELSE IF s[1] = t[1] THEN IsSubSeq(Tail(s), Tail(t))
    ELSE IsSubSeq(s, Tail(t))

\* the member lists the finder returns for the threshold t
MemberListsAt(t) ==
    IF variant = "cv2histogram" THEN calculate_groups(images, t)
    ELSE [i \in 1..Len(group(images, t)) |-> group(images, t)[i].items]

\* groups gs are kept by the groups hs: each group of gs, in order, has its
\* own group of hs with the same anchor and all of its members
KeptBy(gs, hs) ==
    \E f \in [1..Len(gs) -> 1..Len(hs)] :
        /\ \A i, j \in 1..Len(gs) : i < j => f[i] < f[j]
        /\ \A i \in 1..Len(gs) :
              /\ gs[i][1] = hs[f[i]][1]
              /\ IsSubSeq(gs[i], hs[f[i]])

\* C10: pairwise strategy: with a lower threshold every returned group is
\* kept with the same anchor and all of its members.
C10_MonotoneInThreshold ==
    (variant \in PairwiseVariants /\ pc = "returned") =>
        \A t \in Thresholds :
            t < threshold => KeptBy(MemberLists, MemberListsAt(t))

\* C10 witness: a group is returned, and a lower threshold gives more.
C10_Witness ==
    /\ variant \in PairwiseVariants /\ pc = "returned"
    /\ groups # <<>>
    /\ \E t \in Thresholds :
          t < threshold /\ MemberListsAt(t) # MemberLists

\* C11: a threshold outside the open interval (0, 1) is rejected before any
\* image is read, a threshold inside it is accepted.
C11_ThresholdValidated ==
    variant \in PairwiseVariants =>
        /\ pc \in {"returned", "raised"} =>
              (0 < threshold /\ threshold < ScoreOne)
        /\ pc = "rejected" => ~(0 < threshold /\ threshold < ScoreOne)

PowersOfTwo == {1, 2, 4, 8, 16, 32}

\* C12: a hash size that is not a positive power of two is rejected before
\* any worker is started: it is never replaced by another value and never
\* raises from inside a worker.
C12_HashSizeValidated ==
    variant \in BucketVariants =>
        /\ pc \in {"pool", "returned", "raised"} =>
              /\ args.hash_size \in PowersOfTwo
              /\ hash_size = args.hash_size
        /\ error # "ValueError"

\* C13: with a progress callback, over one call of a bucket finder the
\* callback is invoked exactly once for each input item, with the item and
\* the value that is used to cluster it (None for a failed extraction).
C13_CallbackOncePerItem ==
    (variant \in BucketVariants /\ update_fn /\ args.update_raises = "none"
        /\ pc \in {"returned", "raised"}) =>
        /\ \A p \in Paths :
              Cardinality({k \in 1..Len(updates) : updates[k][1] = p})
                  = Cardinality({i \in 1..Len(images) : images[i] = p})
        /\ \A k \in 1..Len(updates) :
              \E i \in 1..Len(images) :
                  /\ images[i] = updates[k][1]
                  /\ hashes[i].value = updates[k][2]

\* the facade was called and has resolved its backend
FacadeRuns ==
    /\ variant \in FacadeVariants
    /\ pc \in {"pool", "returned", "raised"}

\* C14: the facade find_duplicates(images, hash_size=h, update_fn=f)
\* computes every fingerprint with grid size h and invokes f once for each
\* input item.
C14_FacadeHonoursOptions ==
    (FacadeRuns /\ pc = "returned") =>
        /\ args.hash_size # 0 =>
              \A i \in 1..Len(hashes) : hashes[i].size = args.hash_size
        /\ args.update_fn => Len(updates) = Len(images)

\* the finder the caller asks the facade for
FinderAsked ==
    IF args.backend = "imagehash" THEN "averagehash" ELSE "cv2histogram"

\* C15: the bucket and the pairwise strategy can both be selected through
\* the facade, and the strategy selected is the one that runs.
C15_FacadeSelectsStrategy ==
    FacadeRuns => (error # "KeyError" /\ Finder = FinderAsked)

\* C16: find is deterministic: what a call returns or raises is fixed by its
\* input list, the files and the configuration, whatever the schedule of
\* the workers was.
C16_Deterministic ==
    variant \in BucketVariants =>
        /\ pc = "returned" =>
              /\ FirstRaised(ExtractedInOrder) = NoException
              /\ groups = BucketGroups(variant, ExtractedInOrder, images)
        /\ pc = "raised" => error = FirstRaised(ExtractedInOrder)

\* C16 witness: groups were returned by a call in which the image given
\* first was the last to complete.
C16_Witness ==
    /\ variant \in BucketVariants /\ pc = "returned" /\ update_fn
    /\ Len(images) = 3 /\ Len(updates) = 3
    /\ updates[3][1] = images[1] /\ images[1] \notin {images[2], images[3]}
    /\ groups # <<>>

\* C17: for an empty input list find of either strategy returns an empty
\* group list, raises no error and invokes the callback zero times.
C17_EmptyInput ==
    (variant \in BucketVariants \cup PairwiseVariants
        /\ targets = <<>> /\ pc \in {"pool", "returned", "raised"}) =>
        /\ pc # "raised"
        /\ error = NoException
        /\ groups = <<>>
        /\ updates = <<>>

\* C17 witness: a bucket finder with a callback returned for the empty list.
C17_Witness ==
    /\ variant \in BucketVariants /\ update_fn
    /\ targets = <<>> /\ pc = "returned"

\* the images whose hash is h, in input order
ImagesWithHash(h) ==
    LET pos == SelectSeq([i \in 1..Len(images) |-> i],
                         LAMBDA i : hashes[i].value = h)
    IN  [k \in 1..Len(pos) |-> images[pos[k]]]

\* C18: bucket strategy: the members of every returned group are the images
\* of one hash in their input order.
C18_StableOrder ==
    (variant \in BucketVariants /\ pc = "returned") =>
        \A g \in 1..Len(groups) :
            \E i \in 1..Len(images) :
                /\ hashes[i].value # NoneHash
                /\ Members(groups[g]) = ImagesWithHash(hashes[i].value)

\* C18 witness: three different images with one hash give the one group
\* [a, b, c].
C18_Witness ==
    /\ variant = "averagehash" /\ pc = "returned"
    /\ images = <<"a", "b", "c">>
    /\ groups = << <<"a", "b", "c">> >>

\* C19: clustering starts only after every fingerprint is collected: once
\* find is past the pool, no task is pending or running.
C19_ClusterAfterPool ==
    (variant \in BucketVariants \cup FacadeVariants
        /\ pc \in {"returned", "raised"} /\ error # "KeyError") =>
        /\ Len(status) = Len(images)
        /\ \A i \in 1..Len(status) : status[i] = "done"
        /\ \A i \in 1..Len(hashes) : hashes[i].exc # "unset"

\* C19 witness: three tasks were run and the groups were returned.
C19_Witness ==
    /\ variant = "imagehashcmp" /\ pc = "returned"
    /\ Len(status) = 3 /\ groups # <<>>

\* C20: at no moment are more extractions in progress than the pool has
\* workers, whatever the length of the input.
C20_BoundedPool ==
    Cardinality(Running) <= MaxWorkers

\* C20 witness: two extractions are in progress while a third item waits
\* for a worker.
C20_Witness ==
    /\ pc = "pool"
    /\ Cardinality(Running) >= 2
    /\ Pending # {}

\* C21: within one call every input image is decoded and hashed exactly
\* once: never a second time, and once the call has returned not less.
C21_ExtractedOnce ==
    variant \in BucketVariants \cup SimilarVariants =>
        /\ \A p \in Paths : opens[p] <= CountIn(images, p)
        /\ pc = "returned" => \A p \in Paths : opens[p] = CountIn(images, p)

\* the call is over
FindOver == pc \in {"returned", "raised"}

\* C22: find eventually returns: every submitted item is eventually run to
\* its end by a worker, and the call ends with no task pending or running.
C22_FindTerminates ==
    (pc = "pool") ~> (FindOver /\ Done = 1..Len(images))

\* C22 witness: a call with more items than workers is over and every item
\* was run.
C22_Witness ==
    /\ variant \in BucketVariants \cup FacadeVariants
    /\ FindOver
    /\ Len(images) > MaxWorkers
    /\ Done = 1..Len(images)

\* C23: with no threshold given the pairwise finder uses a default of about
\* 0.90 on the scale of the correlation score: of two images, a pair
\* scoring 0.95 is grouped and a pair scoring 0.85 is not.
C23_DefaultThreshold ==
    (variant \in PairwiseVariants /\ args.default_threshold) =>
        /\ 85 < threshold /\ threshold < 95
        /\ (pc = "returned" /\ Len(images) = 2 /\ images[1] # images[2]) =>
              /\ pairScore[{images[1], images[2]}] = 95 =>
                    MemberLists = <<images>>
              /\ pairScore[{images[1], images[2]}] = 85 => groups = <<>>

\* C24: pairwise strategy: a follower of an earlier anchor is an anchor at
\* its own position and groups are not merged transitively: for A, B, C
\* with A ~ B, B ~ C and not A ~ C the groups are [A, B] and [B, C].
C24_OverlappingGroups ==
    (/\ variant \in PairwiseVariants /\ pc = "returned"
     /\ Len(images) = 3
     /\ Cardinality(Range(images)) = 3
     /\ compareHist(images[1], images[2]) > threshold
     /\ compareHist(images[2], images[3]) > threshold
     /\ ~(compareHist(images[1], images[3]) > threshold)) =>
        MemberLists = << <<images[1], images[2]>>, <<images[2], images[3]>> >>

\* the fingerprint of the members of a group
GroupHash(g) == files[Members(g)[1]].ahash

\* C25: bucket strategy: the groups are the classes of two or more
\* positions with the same fingerprint: every position of a class is in its
\* group and in no other, no two groups have the same fingerprint, and the
\* groups come in ascending order of fingerprint.
C25_Partition ==
    (variant \in BucketVariants /\ pc = "returned") =>
        /\ \A g \in 1..Len(groups) :
              /\ \A m \in Range(Members(groups[g])) :
                    files[m].ahash = GroupHash(groups[g])
              /\ Len(Members(groups[g])) =
                    Cardinality({i \in 1..Len(images) :
                                    hashes[i].value = GroupHash(groups[g])})
        /\ \A g, h \in 1..Len(groups) :
              g < h => GroupHash(groups[g]) < GroupHash(groups[h])
        /\ \A i, j \in 1..Len(images) :
              (i # j /\ hashes[i].value = hashes[j].value
                     /\ hashes[i].value # NoneHash) =>
                  \E g \in 1..Len(groups) :
                      GroupHash(groups[g]) = hashes[i].value

\* C25 witness: two groups are returned for a list of four, the first
\* image of which has the greater fingerprint, with an image of the other
\* fingerprint between the members of a group.
C25_Witness ==
    /\ variant \in BucketVariants /\ pc = "returned"
    /\ Len(groups) = 2
    /\ Len(images) = 4 /\ Cardinality(Range(images)) = 3
    /\ hashes[1].value > hashes[2].value
    /\ hashes[1].value = hashes[3].value

\* the scores calculate_correlations computes for the anchor at position a
PositionScores(a) ==
    [k \in 1..(Len(images) - a) |->
        compareHist(images[a], images[a + k - 1])]

\* the anchor positions with a score above the threshold
AnchorsWithMatch ==
    {a \in 1..(Len(images) - 1) :
        \E k \in 1..(Len(images) - a) : PositionScores(a)[k] > threshold}

\* C26: calculate_groups emits one group for each anchor position with a
\* match, also when a path is at two adjacent positions, and every group is
\* its anchor followed by a subsequence of the images after the anchor.
C26_OneGroupPerAnchor ==
    (variant = "cv2histogram" /\ pc = "returned") =>
        /\ Len(groups) = Cardinality(AnchorsWithMatch)
        /\ \A g \in 1..Len(groups) :
              \E a \in AnchorsWithMatch :
                  /\ groups[g][1] = images[a]
                  /\ IsSubSeq(Tail(groups[g]),
                              SubSeq(images, a + 1, Len(images)))

\* the callback raises for an item of the list and no extraction before it
\* in the list raises
CallbackRaisesFirst ==
    /\ variant \in BucketVariants /\ update_fn
    /\ \E i \in 1..Len(images) :
          /\ images[i] = args.update_raises
          /\ \A j \in 1..i : Extracted(variant, images[j]).exc = NoException

\* C27: when the progress callback raises for an item, find raises that
\* exception and returns no groups, and it does so after the extraction and
\* the callback of every other item have run.
C27_CallbackRaises ==
    (CallbackRaisesFirst /\ FindOver) =>
        /\ pc = "raised"
        /\ error = "CallbackError"
        /\ groups = <<>>
        /\ Done = 1..Len(images)
        /\ \A p \in Paths : opens[p] = CountIn(images, p)
        /\ Len(updates) =
              Cardinality({i \in 1..Len(images) :
                              Extracted(variant, images[i]).exc = NoException})

\* C27 witness: the callback raised for the first of three images, the
\* callbacks of the two others ran after it and find raised.
C27_Witness ==
    /\ CallbackRaisesFirst /\ pc = "raised"
    /\ Len(images) = 3 /\ Len(updates) = 3
    /\ images[1] = args.update_raises
    /\ updates[1][1] = images[1]
    /\ images[1] \notin {images[2], images[3]}

\* C28: the find-duplicates command reports every group the finder
\* returned: one line with all the member paths of the group, and with
\* --execute one run of the command with all the member paths, for groups
\* of two and of more members.
C28_CommandReportsGroups ==
    (variant \in CommandVariants /\ pc \in {"reported", "cmd_raised"}) =>
        /\ pc = "reported"
        /\ Len(printed) = Len(groups)
        /\ \A g \in 1..Len(groups) : printed[g].paths = Members(groups[g])
        /\ \/ spawned = <<>>
           \/ /\ Len(spawned) = Len(groups)
              /\ \A g \in 1..Len(groups) :
                    spawned[g] = <<"execute">> \o Members(groups[g])

\* the suffix of the path is jpg or jpeg in any case
HasJpegSuffix(path) ==
    files[path].suffix \in {".jpg", ".jpeg", ".JPG", ".JPEG"}

\* C29: the pairwise finders cluster only the paths with the suffix jpg or
\* jpeg, in input order: any other path is not read, not compared and not a
\* member of a group, and the groups are those of the list without it.
C29_OnlyJpegs ==
    (variant \in PairwiseVariants /\ FindOver) =>
        /\ images = SelectSeq(targets, HasJpegSuffix)
        /\ pc = "raised" =>
              \E i \in 1..Len(targets) :
                  HasJpegSuffix(targets[i]) /\ CannotRead(targets[i])
        /\ pc = "returned" =>
              /\ \A g \in 1..Len(groups) :
                    \A m \in Range(Members(groups[g])) : HasJpegSuffix(m)
              /\ MemberLists = MemberListsAt(threshold)

\* C29 witness: a group is returned for a list of three whose second path
\* is a png file that cannot be read and whose third has the suffix JPEG.
C29_Witness ==
    /\ variant = "cv2histogram" /\ pc = "returned"
    /\ Len(targets) = 3
    /\ files[targets[2]].suffix = ".png" /\ CannotRead(targets[2])
    /\ files[targets[3]].suffix = ".JPEG"
    /\ Len(groups) = 1

\* the positions of the list whose hash on the grid of hash_size is that of
\* the path
FirstPassBucket(path) ==
    {i \in 1..Len(images) : files[images[i]].ahash = files[path].ahash}

\* C30: search_similar refines a coarse grouping: the members of a returned
\* group are in one first-pass bucket and have the same hash on the grid of
\* 2 * hash_size; an image alone in its first-pass bucket is not hashed
\* again and is in no group.
C30_RefinesFirstPass ==
    (variant \in SimilarVariants /\ pc = "returned") =>
        /\ \A g \in 1..Len(groups) :
              \A m, n \in Range(Members(groups[g])) :
                  /\ files[m].ahash = files[n].ahash
                  /\ files[m].fhash = files[n].fhash
        /\ \A i \in 1..Len(images) :
              FirstPassBucket(images[i]) = {i} =>
                  /\ opens[images[i]] = 1
                  /\ ~Grouped_(images[i])

====
